---- MODULE Spec2Model ----
(***************************************************************************)
(* Model of the Cassandra migration driver (cassandra.go): Open, Close,    *)
(* Migrate with its deferred rollback, Version, Versions and Execute,      *)
(* called by a single synchronous caller against one cluster whose         *)
(* schema_migrations table outlives the sessions.                          *)
(***************************************************************************)
EXTENDS Integers, Sequences, FiniteSets

\* ---------------------------------------------------------------- bounds
MaxVersion == 2
MaxSegs == 2

VersionIds == 1..MaxVersion

\* ---------------------------------------------------------------- errors
\* An error value is the sequence of the pieces of its text; nil is empty.
Nil == <<>>
ErrRead == <<"read content failed">>
ErrAtoi == <<"strconv.Atoi: invalid syntax">>
ErrMissingPassword == <<"Missing password. Please provide password.">>
ErrSession == <<"create session failed">>
\* errors a session query can come back with
ExecErrs == {<<"timeout">>, <<"unavailable">>}
ExecOutcomes == {Nil} \cup ExecErrs

\* ------------------------------------------------------- text operations
IsSpace(c) == c \in {" ", "\t", "\n", "\r"}

RECURSIVE TrimLeft(_)
TrimLeft(s) ==
  IF Len(s) > 0 /\ IsSpace(Head(s)) THEN TrimLeft(Tail(s)) ELSE s

RECURSIVE TrimRight(_)
TrimRight(s) ==
  IF Len(s) > 0 /\ IsSpace(s[Len(s)]) THEN TrimRight(SubSeq(s, 1, Len(s) - 1)) ELSE s

NoTrim(s) == s

\* strings.TrimSpace
TrimSpace(s) == TrimRight(TrimLeft(s))

\* index of the first sep in s, 0 when there is none
RECURSIVE IndexFrom(_, _, _)
IndexFrom(s, sep, i) ==
  IF i > Len(s) THEN 0
  ELSE IF s[i] = sep THEN i
  ELSE IndexFrom(s, sep, i + 1)

\* strings.Split(s, sep) for a one-character separator
RECURSIVE Split(_, _)
Split(s, sep) ==
  LET i == IndexFrom(s, sep, 1) IN
    IF i = 0 THEN <<s>>
    ELSE <<SubSeq(s, 1, i - 1)>> \o Split(SubSeq(s, i + 1, Len(s)), sep)

NeverEmpty(query) == FALSE

\* the len(query) == 0 test of the statement loop
IsEmptyQuery(query) == Len(query) = 0

DigitValue(c) ==
  CASE c = "0" -> 0 [] c = "1" -> 1 [] c = "2" -> 2 [] c = "3" -> 3 [] c = "4" -> 4
    [] c = "5" -> 5 [] c = "6" -> 6 [] c = "7" -> 7 [] c = "8" -> 8 [] c = "9" -> 9
    [] OTHER -> -1

RECURSIVE DigitsValue(_, _)
DigitsValue(s, acc) ==
  IF Len(s) = 0 THEN acc ELSE DigitsValue(Tail(s), acc * 10 + DigitValue(Head(s)))

\* strconv.Atoi: optional sign, then one or more decimal digits
Atoi(s) ==
  LET signed == Len(s) > 0 /\ Head(s) \in {"+", "-"}
      digits == IF signed THEN Tail(s) ELSE s
      ok == Len(digits) > 0 /\ \A i \in 1..Len(digits) : DigitValue(digits[i]) >= 0
      mag == IF ok THEN DigitsValue(digits, 0) ELSE 0
  IN [ok |-> ok, val |-> IF signed /\ Head(s) = "-" THEN 0 - mag ELSE mag]

ConsistencyNames ==
  {"any", "one", "two", "three", "quorum", "all", "local_quorum", "each_quorum", "local_one"}

\* gocql.ParseConsistency: the level for a known name, a panic for any other
ParseConsistency(name) ==
  [ok |-> name \in ConsistencyNames, level |-> IF name \in ConsistencyNames THEN name ELSE ""]

\* ------------------------------------------------------ bookkeeping table
\* INSERT INTO schema_migrations (version) VALUES (?) on a primary-key column
InsertVersion(t, v) == t \cup {v}

KeepVersion(t, v) == t

\* DELETE FROM schema_migrations WHERE version = ?
DeleteVersion(t, v) == t \ {v}

KeepTable(t, file) == t

InvertDirection(t, file) ==
  IF file.Direction = "down" THEN InsertVersion(t, file.Version)
  ELSE DeleteVersion(t, file.Version)

\* the DELETE the deferred function of Migrate issues
Rollback(t, file) == DeleteVersion(t, file.Version)

RollbackErrorOnly(e, errRollback) == errRollback

\* fmt.Errorf("%s; failed to rollback version: %s", err, errRollback)
RollbackError(e, errRollback) == e \o <<"; failed to rollback version: ">> \o errRollback

\* ---------------------------------------------------------------- sorting
\* file.Versions.Less
Less(a, b) == a < b

ForwardLess(a, b) == Less(a, b)

\* sort.Reverse(versions).Less
ReverseLess(a, b) == Less(b, a)

RECURSIVE InsertSorted(_, _)
InsertSorted(x, s) ==
  IF Len(s) = 0 THEN <<x>>
  ELSE IF ReverseLess(Head(s), x) THEN <<Head(s)>> \o InsertSorted(x, Tail(s))
  ELSE <<x>> \o s

\* sort.Sort(sort.Reverse(versions))
RECURSIVE SortReverse(_)
SortReverse(s) ==
  IF Len(s) = 0 THEN <<>> ELSE InsertSorted(Head(s), SortReverse(Tail(s)))

\* the orders in which a table scan can hand out the rows
ScanOrders(t) ==
  {o \in [1..Cardinality(t) -> t] : \A i, j \in 1..Cardinality(t) : i # j => o[i] # o[j]}

\* Versions(): scan (n rows arrive before the iterator ends), close, sort
VersionsResult(order, n, e) == [versions |-> SortReverse(SubSeq(order, 1, n)), err |-> e]

\* Version(): head of Versions(), 0 when it is empty
VersionResult(order, n, e) ==
  LET r == VersionsResult(order, n, e) IN
    [version |-> IF Len(r.versions) = 0 THEN 0 ELSE r.versions[1], err |-> r.err]

\* ------------------------------------------------------------------ inputs
\* A connection URL after url.Parse; parsed = FALSE is the nil *url.URL that
\* url.Parse hands back together with its error.
NoUrl ==
  [parsed |-> FALSE, path |-> <<>>, consistency |-> "", protocol |-> <<>>,
   user |-> "none", lookup |-> FALSE, sslmode |-> ""]

Urls ==
  {NoUrl} \cup
  [parsed : {TRUE}, path : {<<>>, <<"/", "k">>}, consistency : {"", "quorum", "bogus"},
   protocol : {<<>>, <<"4">>, <<"x">>}, user : {"none", "useronly", "userpass"},
   lookup : BOOLEAN, sslmode : {"", "disable", "verify-full"}]

AlwaysSet(user) == TRUE

\* the second result of u.User.Password()
PasswordSet(user) == user = "userpass"

\* gocql.NewCluster(u.Host) before Open fills it in
NoCluster ==
  [Keyspace |-> <<>>, Consistency |-> "", ProtoVersion |-> 0,
   DisableInitialHostLookup |-> FALSE, Authenticator |-> "none",
   SslOpts |-> "none", EnableHostVerification |-> FALSE]

Directions == {"up", "down", "other"}

NoFile == [Version |-> 0, Direction |-> "other", Content |-> <<>>]

\* A segment of a migration file: a statement (possibly empty) with blanks
\* around it.
Pad(n) == [i \in 1..n |-> " "]

Segments ==
  { [l |-> 0, core |-> <<>>, r |-> 0],
    [l |-> 1, core |-> <<>>, r |-> 1],
    [l |-> 0, core |-> <<"a">>, r |-> 0],
    [l |-> 1, core |-> <<"b", " ", "c">>, r |-> 1] }

SegmentLists == UNION { [1..n -> Segments] : n \in 1..MaxSegs }

SegmentText(g) == Pad(g.l) \o g.core \o Pad(g.r)

\* the file content: the segments joined by ';'
RECURSIVE FileContent(_)
FileContent(p) ==
  IF Len(p) = 1 THEN SegmentText(p[1])
  ELSE SegmentText(p[1]) \o <<";">> \o FileContent(Tail(p))

ExecuteStatements == {<<"a">>, <<" ", "b">>}

\* a query handed to session.Query(...).Exec()
Q(kind, v, text) == [kind |-> kind, version |-> v, text |-> text]

NoRet == [handle |-> FALSE, err |-> Nil, versions |-> <<>>, version |-> 0]

\* ------------------------------------------------------------------- state
VARIABLES
  pc,              \* where the caller is
  session,         \* driver.session: "nil", "open" or "closed"
  tableExists,     \* schema_migrations exists in the keyspace
  table,           \* the versions that have a row in schema_migrations
  url,             \* Open: u
  cluster,         \* Open: cluster
  f,               \* Migrate: f
  idx,             \* Migrate: position of the range loop in the split content
  err,             \* Migrate: the named result err
  ret,             \* what the last call returned
  sent,            \* the queries the current call handed to the session, in order
  applied,         \* the statements of the current call that took effect
  parts,           \* history: the segments the file content was written from
  firstErr,        \* history: the error of the step that failed
  rollbackErr,     \* history: the error of the deferred DELETE
  tableAtCall,     \* history: table when Migrate was called
  tableAfterWrite, \* history: table right after the bookkeeping query
  prevUp,          \* history: version of the preceding call if a successful up
  roundTrip        \* history: this call is the down of the preceding successful up

prog == <<pc, session, tableExists, table, url, cluster, f, idx, err, ret, sent, applied>>
hist == <<parts, firstErr, rollbackErr, tableAtCall, tableAfterWrite, prevUp, roundTrip>>
vars == <<prog, hist>>

migrateVars == <<f, idx, err, parts, firstErr, rollbackErr, tableAtCall, tableAfterWrite, roundTrip>>
openVars == <<url, cluster>>

Init ==
  /\ pc = "start"
  /\ session = "nil"
  /\ tableExists = FALSE
  /\ table = {}
  /\ url = NoUrl
  /\ cluster = NoCluster
  /\ f = NoFile
  /\ idx = 1
  /\ err = Nil
  /\ ret = NoRet
  /\ sent = <<>>
  /\ applied = <<>>
  /\ parts = <<>>
  /\ firstErr = Nil
  /\ rollbackErr = Nil
  /\ tableAtCall = {}
  /\ tableAfterWrite = {}
  /\ prevUp = 0
  /\ roundTrip = FALSE

\* -------------------------------------------------------------------- Open
\* lines 37-49: new Driver, url.Parse (its error is not looked at), NewCluster,
\* keyspace, consistency
OpenCall(u) ==
  /\ pc = "start"
  /\ url' = u
  /\ session' = "nil"
  /\ IF \/ ~u.parsed
        \/ Len(u.path) < 1
        \/ (Len(u.consistency) > 0 /\ ~ParseConsistency(u.consistency).ok)
     THEN /\ pc' = "panicked"
          /\ cluster' = NoCluster
     ELSE /\ pc' = "open_configure"
          /\ cluster' = [NoCluster EXCEPT
               !.Keyspace = SubSeq(u.path, 2, Len(u.path)),
               !.Consistency = IF Len(u.consistency) > 0
                               THEN ParseConsistency(u.consistency).level
                               ELSE "all"]
  /\ UNCHANGED <<tableExists, table, ret, sent, applied, prevUp, migrateVars>>

\* lines 51-86: protocol, disable_init_host_lookup, credentials, ssl
OpenConfigure ==
  /\ pc = "open_configure"
  /\ LET a == Atoi(url.protocol)
         c1 == [cluster EXCEPT
                  !.ProtoVersion = IF Len(url.protocol) > 0 THEN a.val ELSE @,
                  !.DisableInitialHostLookup = url.lookup]
         c2 == [c1 EXCEPT !.Authenticator = IF url.user # "none" THEN "password" ELSE @]
         ssl == url.sslmode # "" /\ url.sslmode # "disable"
         c3 == [c2 EXCEPT
                  !.SslOpts = IF ssl THEN "ssl" ELSE @,
                  !.EnableHostVerification = ssl /\ url.sslmode = "verify-full"]
     IN IF Len(url.protocol) > 0 /\ ~a.ok
        THEN /\ ret' = [NoRet EXCEPT !.err = ErrAtoi]
             /\ pc' = "open_returned"
             /\ UNCHANGED cluster
        ELSE IF url.user # "none" /\ ~PasswordSet(url.user)
        THEN /\ ret' = [NoRet EXCEPT !.err = ErrMissingPassword]
             /\ pc' = "open_returned"
             /\ cluster' = c1
        ELSE /\ pc' = "open_session"
             /\ cluster' = c3
             /\ UNCHANGED ret
  /\ UNCHANGED <<session, tableExists, table, url, sent, applied, prevUp, migrateVars>>

\* lines 88-91: cluster.CreateSession()
OpenCreateSession ==
  /\ pc = "open_session"
  /\ \E ok \in BOOLEAN :
       IF ok
       THEN /\ session' = "open"
            /\ pc' = "open_table"
            /\ UNCHANGED ret
       ELSE /\ ret' = [NoRet EXCEPT !.err = ErrSession]
            /\ pc' = "open_returned"
            /\ UNCHANGED session
  /\ UNCHANGED <<tableExists, table, sent, applied, prevUp, openVars, migrateVars>>

\* lines 93-97 and 105-108: ensureVersionTableExists, then the return
OpenEnsureTable ==
  /\ pc = "open_table"
  /\ \E e \in ExecOutcomes :
       /\ sent' = Append(sent, Q("CREATE", 0, <<>>))
       /\ IF e = Nil
          THEN /\ tableExists' = TRUE
               /\ ret' = [NoRet EXCEPT !.handle = TRUE]
          ELSE /\ ret' = [NoRet EXCEPT !.err = e]
               /\ UNCHANGED tableExists
       /\ pc' = "open_returned"
  /\ UNCHANGED <<session, table, applied, prevUp, openVars, migrateVars>>

\* the caller takes Open's results
OpenReturn ==
  /\ pc = "open_returned"
  /\ pc' = IF ret.handle THEN "ready" ELSE "start"
  /\ url' = NoUrl
  /\ cluster' = NoCluster
  /\ ret' = NoRet
  /\ sent' = <<>>
  /\ UNCHANGED <<session, tableExists, table, applied, prevUp, migrateVars>>

\* lines 100-103
Close ==
  /\ pc = "ready"
  /\ session' = "closed"
  /\ pc' = "start"
  /\ prevUp' = 0
  /\ UNCHANGED <<tableExists, table, ret, sent, applied, openVars, migrateVars>>

\* ----------------------------------------------------------------- Migrate
\* lines 110-122: the call, the deferred function is registered, f.ReadContent()
MigrateCall(v, d, p, readOk) ==
  /\ pc = "ready"
  /\ f' = [Version |-> v, Direction |-> d, Content |-> IF readOk THEN FileContent(p) ELSE <<>>]
  /\ parts' = p
  /\ err' = IF readOk THEN Nil ELSE ErrRead
  /\ firstErr' = IF readOk THEN Nil ELSE ErrRead
  /\ rollbackErr' = Nil
  /\ pc' = IF readOk THEN "migrate_bookkeeping" ELSE "migrate_defer"
  /\ idx' = 1
  /\ sent' = <<>>
  /\ applied' = <<>>
  /\ tableAtCall' = table
  /\ tableAfterWrite' = table
  /\ roundTrip' = (d = "down" /\ prevUp = v)
  /\ prevUp' = 0
  /\ UNCHANGED <<session, tableExists, table, ret, openVars>>

\* lines 124-132: the bookkeeping INSERT (up) or DELETE (down)
MigrateBookkeeping ==
  /\ pc = "migrate_bookkeeping"
  /\ IF f.Direction \in {"up", "down"}
     THEN \E e \in ExecOutcomes :
            /\ sent' = Append(sent, Q(IF f.Direction = "up" THEN "INSERT" ELSE "DELETE",
                                      f.Version, <<>>))
            /\ IF e = Nil
               THEN /\ table' = IF f.Direction = "up"
                                THEN InsertVersion(table, f.Version)
                                ELSE DeleteVersion(table, f.Version)
                    /\ tableAfterWrite' = table'
                    /\ pc' = "migrate_statements"
                    /\ UNCHANGED <<err, firstErr>>
               ELSE /\ err' = e
                    /\ firstErr' = e
                    /\ pc' = "migrate_defer"
                    /\ UNCHANGED <<table, tableAfterWrite>>
     ELSE /\ pc' = "migrate_statements"
          /\ UNCHANGED <<sent, table, tableAfterWrite, err, firstErr>>
  /\ UNCHANGED <<session, tableExists, ret, applied, openVars, f, idx, parts,
                 rollbackErr, tableAtCall, prevUp, roundTrip>>

\* lines 134-143: one iteration of the loop over strings.Split(f.Content, ";")
MigrateStatement ==
  /\ pc = "migrate_statements"
  /\ idx <= Len(Split(f.Content, ";"))
  /\ LET query == TrimSpace(Split(f.Content, ";")[idx]) IN
       IF IsEmptyQuery(query)
       THEN /\ idx' = idx + 1
            /\ UNCHANGED <<pc, sent, applied, err, firstErr>>
       ELSE \E e \in ExecOutcomes :
              /\ sent' = Append(sent, Q("STMT", 0, query))
              /\ IF e = Nil
                 THEN /\ applied' = Append(applied, query)
                      /\ idx' = idx + 1
                      /\ UNCHANGED <<pc, err, firstErr>>
                 ELSE /\ err' = e
                      /\ firstErr' = e
                      /\ pc' = "migrate_defer"
                      /\ UNCHANGED <<applied, idx>>
  /\ UNCHANGED <<session, tableExists, table, ret, openVars, f, parts,
                 rollbackErr, tableAtCall, tableAfterWrite, prevUp, roundTrip>>

\* line 144: the loop is over, Migrate returns with err = nil
MigrateLoopEnd ==
  /\ pc = "migrate_statements"
  /\ idx > Len(Split(f.Content, ";"))
  /\ pc' = "migrate_defer"
  /\ UNCHANGED <<session, tableExists, table, ret, sent, applied, prevUp, openVars, migrateVars>>

\* lines 111-118: the deferred function
MigrateDefer ==
  /\ pc = "migrate_defer"
  /\ IF err # Nil
     THEN \E e \in ExecOutcomes :
            /\ sent' = Append(sent, Q("DELETE", f.Version, <<>>))
            /\ IF e = Nil
               THEN /\ table' = Rollback(table, f)
                    /\ UNCHANGED <<err, rollbackErr>>
               ELSE /\ err' = RollbackError(err, e)
                    /\ rollbackErr' = e
                    /\ UNCHANGED table
            /\ ret' = [NoRet EXCEPT !.err = err']
     ELSE /\ ret' = NoRet
          /\ UNCHANGED <<sent, table, err, rollbackErr>>
  /\ pc' = "migrate_returned"
  /\ UNCHANGED <<session, tableExists, applied, openVars, f, idx, parts, firstErr,
                 tableAtCall, tableAfterWrite, prevUp, roundTrip>>

\* the caller takes Migrate's result
MigrateReturn ==
  /\ pc = "migrate_returned"
  /\ pc' = "ready"
  /\ prevUp' = IF ret.err = Nil /\ f.Direction = "up" THEN f.Version ELSE 0
  /\ f' = NoFile
  /\ idx' = 1
  /\ err' = Nil
  /\ ret' = NoRet
  /\ sent' = <<>>
  /\ applied' = <<>>
  /\ parts' = <<>>
  /\ firstErr' = Nil
  /\ rollbackErr' = Nil
  /\ tableAtCall' = {}
  /\ tableAfterWrite' = {}
  /\ roundTrip' = FALSE
  /\ UNCHANGED <<session, tableExists, table, openVars>>

\* ------------------------------------------------ Versions, Version, Execute
\* lines 157-167
Versions ==
  /\ pc = "ready"
  /\ \E order \in ScanOrders(table), n \in 0..Cardinality(table), e \in ExecOutcomes :
       /\ n < Cardinality(table) => e # Nil
       /\ ret' = [NoRet EXCEPT !.versions = VersionsResult(order, n, e).versions,
                               !.err = VersionsResult(order, n, e).err]
  /\ sent' = <<Q("SELECT", 0, <<>>)>>
  /\ pc' = "versions_returned"
  /\ prevUp' = 0
  /\ UNCHANGED <<session, tableExists, table, applied, openVars, migrateVars>>

\* lines 148-154
Version ==
  /\ pc = "ready"
  /\ \E order \in ScanOrders(table), n \in 0..Cardinality(table), e \in ExecOutcomes :
       /\ n < Cardinality(table) => e # Nil
       /\ ret' = [NoRet EXCEPT !.version = VersionResult(order, n, e).version,
                               !.err = VersionResult(order, n, e).err]
  /\ sent' = <<Q("SELECT", 0, <<>>)>>
  /\ pc' = "version_returned"
  /\ prevUp' = 0
  /\ UNCHANGED <<session, tableExists, table, applied, openVars, migrateVars>>

\* lines 170-172
Execute(statement) ==
  /\ pc = "ready"
  /\ \E e \in ExecOutcomes :
       /\ applied' = IF e = Nil THEN <<statement>> ELSE <<>>
       /\ ret' = [NoRet EXCEPT !.err = e]
  /\ sent' = <<Q("STMT", 0, statement)>>
  /\ pc' = "execute_returned"
  /\ prevUp' = 0
  /\ UNCHANGED <<session, tableExists, table, openVars, migrateVars>>

\* the caller takes the result of Versions, Version or Execute
CallReturn ==
  /\ pc \in {"versions_returned", "version_returned", "execute_returned"}
  /\ pc' = "ready"
  /\ ret' = NoRet
  /\ sent' = <<>>
  /\ applied' = <<>>
  /\ UNCHANGED <<session, tableExists, table, prevUp, openVars, migrateVars>>

\* ------------------------------------------------------------ specification
Next ==
  \/ \E u \in Urls : OpenCall(u)
  \/ OpenConfigure
  \/ OpenCreateSession
  \/ OpenEnsureTable
  \/ OpenReturn
  \/ Close
  \/ \E v \in VersionIds, d \in Directions, p \in SegmentLists : MigrateCall(v, d, p, TRUE)
  \/ \E v \in VersionIds, d \in Directions : MigrateCall(v, d, <<>>, FALSE)
  \/ MigrateBookkeeping
  \/ MigrateStatement
  \/ MigrateLoopEnd
  \/ MigrateDefer
  \/ MigrateReturn
  \/ Versions
  \/ Version
  \/ \E s \in ExecuteStatements : Execute(s)
  \/ CallReturn

Spec == Init /\ [][Next]_vars

\* ------------------------------------------------------ derived quantities
\* the statements of the file as it was written: the non-empty cores, in order
ExpectedStatements ==
  SelectSeq([i \in 1..Len(parts) |-> parts[i].core], LAMBDA c : c # <<>>)

\* the texts of the migration statements handed to the session so far
StatementsSent ==
  LET stmts == SelectSeq(sent, LAMBDA q : q.kind = "STMT") IN
    [i \in 1..Len(stmts) |-> stmts[i].text]

IsPrefix(s, t) == Len(s) <= Len(t) /\ s = SubSeq(t, 1, Len(s))

InMigrate ==
  pc \in {"migrate_bookkeeping", "migrate_statements", "migrate_defer", "migrate_returned"}

MigrateFailed == pc = "migrate_returned" /\ firstErr # Nil

\* the step that failed is a migration statement
StatementFailed ==
  /\ MigrateFailed
  /\ Len(sent) >= 2
  /\ sent[Len(sent) - 1].kind = "STMT"
  /\ sent[Len(sent)].kind = "DELETE"

\* text holds e and, after it, r
ContainsInOrder(text, e, r) ==
  \E i \in 1..Len(text), j \in 1..Len(text) :
    /\ i + Len(e) <= j
    /\ j + Len(r) - 1 <= Len(text)
    /\ SubSeq(text, i, i + Len(e) - 1) = e
    /\ SubSeq(text, j, j + Len(r) - 1) = r

OpenFinished == pc \in {"open_returned", "panicked"}

InOpen == pc \in {"open_configure", "open_session", "open_table", "open_returned", "panicked"}

ProtocolMalformed == Len(url.protocol) > 0 /\ ~Atoi(url.protocol).ok

\* Open got as far as cluster.CreateSession()
SessionAttempted == session = "open" \/ ret.err = ErrSession

\* ------------------------------------------------------------------ claims
\* C1: an up-migration of version V whose statement number k >= 2 fails, with
\* a compensating DELETE that succeeds, returns with no row for V in the
\* bookkeeping table and with statements 1..k-1 still applied.
C1_UpFailureCompensated ==
  LET k == Len(StatementsSent) IN
    (StatementFailed /\ f.Direction = "up" /\ rollbackErr = Nil /\ k >= 2)
      => /\ f.Version \notin table
         /\ ret.err # Nil
         /\ applied = SubSeq(ExpectedStatements, 1, k - 1)

C1_Witness ==
  /\ StatementFailed
  /\ f.Direction = "up"
  /\ rollbackErr = Nil
  /\ Len(StatementsSent) = 2
  /\ Len(applied) = 1
  /\ f.Version \in tableAfterWrite

\* C2: when a step of Migrate failed with error E, Migrate returns exactly E
\* if the compensating DELETE succeeded, and a text holding E followed by R if
\* the DELETE failed with R; it never returns nil or an error without E.
C2_OriginalErrorKept ==
  MigrateFailed
    => /\ ret.err # Nil
       /\ rollbackErr = Nil => ret.err = firstErr
       /\ rollbackErr # Nil => ContainsInOrder(ret.err, firstErr, rollbackErr)
       /\ IsPrefix(firstErr, ret.err)

C2_Witness ==
  /\ MigrateFailed
  /\ rollbackErr # Nil
  /\ firstErr # rollbackErr
  /\ firstErr \in ExecErrs

C4_RoundTrip ==
  (pc = "migrate_returned" /\ roundTrip /\ ret.err = Nil) => f.Version \notin table

C4_Witness ==
  /\ pc = "migrate_returned"
  /\ roundTrip
  /\ ret.err = Nil
  /\ f.Version \in tableAtCall
  /\ table # {}

\* C5: Versions() returns exactly the versions that have a row, in strictly
\* descending order, and Version() returns the largest of them, or 0 when the
\* table has no row.
C5_VersionsDescending ==
  /\ (pc = "versions_returned" /\ ret.err = Nil)
       => /\ {ret.versions[i] : i \in 1..Len(ret.versions)} = table
          /\ Len(ret.versions) = Cardinality(table)
          /\ \A i \in 1..(Len(ret.versions) - 1) : ret.versions[i] > ret.versions[i + 1]
  /\ (pc = "version_returned" /\ ret.err = Nil)
       => /\ table = {} => ret.version = 0
          /\ table # {} => /\ ret.version \in table
                           /\ \A v \in table : v <= ret.version

C5_Witness ==
  /\ pc = "versions_returned"
  /\ ret.err = Nil
  /\ Len(ret.versions) >= 2

\* C6: Open returns an error and no handle when the URL cannot be parsed, the
\* consistency name is not recognized, the protocol is not an integer, or the
\* session cannot be established; it ends in no other way.
C6_OpenReturnsError ==
  (OpenFinished /\ (\/ ~url.parsed
                    \/ (Len(url.consistency) > 0 /\ url.consistency \notin ConsistencyNames)
                    \/ url.protocol = <<"x">>
                    \/ ret.err = ErrSession))
    => /\ pc = "open_returned"
       /\ ret.err # Nil
       /\ ~ret.handle

\* C7 as stated: Open on a URL with a username and no password returns the
\* missing-password error before any session or table is created; Open on a
\* URL with no userinfo configures no authenticator and goes on to create the
\* session.
C7_AsStated ==
  /\ (pc = "open_returned" /\ url.user = "useronly")
       => /\ ret.err = ErrMissingPassword
          /\ session = "nil"
          /\ sent = <<>>
  /\ (pc = "open_returned" /\ url.parsed /\ url.user = "none")
       => /\ cluster.Authenticator = "none"
          /\ SessionAttempted

\* C7 amended: Open on a URL with a username and no password never creates a
\* session or the bookkeeping table and never returns a handle; when it
\* returns, it returns the missing-password error, except that a non-integer
\* protocol is reported first. Open on a URL with no userinfo never configures
\* an authenticator, and has tried to create the session whenever it returns
\* anything but the protocol error.
C7_MissingPassword ==
  /\ (InOpen /\ url.user = "useronly")
       => /\ session = "nil"
          /\ sent = <<>>
          /\ ~ret.handle
          /\ pc \notin {"open_session", "open_table"}
          /\ pc = "open_returned"
               => ret.err = (IF ProtocolMalformed THEN ErrAtoi ELSE ErrMissingPassword)
  /\ (InOpen /\ url.parsed /\ url.user = "none")
       => /\ cluster.Authenticator = "none"
          /\ ret.err # ErrMissingPassword
          /\ (pc = "open_returned" /\ ret.err # ErrAtoi) => SessionAttempted
          /\ (pc = "open_returned" /\ ret.err = ErrAtoi) => ProtocolMalformed

C7_Witness ==
  /\ pc = "open_returned"
  /\ url.user = "useronly"
  /\ ret.err = ErrMissingPassword
  /\ session = "nil"

\* C8: the compensating DELETE is issued only for a failure of the bookkeeping
\* query or of a statement; when loading the content fails, Migrate sends no
\* query and the bookkeeping table is as it was at the call.
C8_NoQueryOnReadFailure ==
  (pc = "migrate_returned" /\ firstErr = ErrRead)
    => /\ sent = <<>>
       /\ table = tableAtCall

C10_NoSessionLeftOpen ==
  (pc = "open_returned" /\ ret.err # Nil) => session # "open"

====
